---- MODULE Spec2Model ----
(***************************************************************************)
(* A model of src/converter.js: class WebMToMP4Converter.                  *)
(*                                                                         *)
(* run() probes the engine (checkFFmpeg), creates the two directories      *)
(* (createDirectories), lists and filters the input directory              *)
(* (getInputFiles) and converts the matched files one after the other      *)
(* (convertAll / convertFile).  The engine (fluent-ffmpeg) and the file    *)
(* system are the environment: their outcomes are nondeterministic.        *)
(*                                                                         *)
(* A file name is a sequence of one-character strings, so that the         *)
(* extension and the base name are computed, not assumed.                  *)
(***************************************************************************)
EXTENDS Naturals, Sequences, FiniteSets

\* Bounds of the model.
MaxEntries == 2      \* entries in the input directory
MaxProgress == 1     \* 'progress' events of one engine invocation

----------------------------------------------------------------------------
\* Configuration: the constructor, lines 6-10.

inputDir == <<".", "input">>
outputDir == <<".", "output">>

supportedFormats ==
    { <<".", "w", "e", "b", "m">>,
      <<".", "m", "k", "v">>,
      <<".", "a", "v", "i">>,
      <<".", "m", "o", "v">>,
      <<".", "f", "l", "v">> }

\* The fixed output options of convertFile, lines 63-69.
outputOptions ==
    << "-c:v libx264", "-c:a aac", "-preset medium", "-crf 23",
       "-movflags +faststart" >>

Mp4 == <<".", "m", "p", "4">>

----------------------------------------------------------------------------
\* String and path functions used by the code.

\* String.prototype.toLowerCase, one character: the upper-case letters and
\* what they map to; every other character is left alone.
LowerOf ==
    [ A |-> "a", B |-> "b", C |-> "c", D |-> "d", E |-> "e", F |-> "f",
      G |-> "g", H |-> "h", I |-> "i", J |-> "j", K |-> "k", L |-> "l",
      M |-> "m", N |-> "n", O |-> "o", P |-> "p", Q |-> "q", R |-> "r",
      S |-> "s", T |-> "t", U |-> "u", V |-> "v", W |-> "w", X |-> "x",
      Y |-> "y", Z |-> "z" ]

LowerChar(c) == IF c \in DOMAIN LowerOf THEN LowerOf[c] ELSE c

\* String.prototype.toLowerCase (line 44).
toLowerCase(s) == [i \in 1..Len(s) |-> LowerChar(s[i])]

\* The index of the last "." of a name that holds no "/", 0 when there is none
\* (startDot of path.extname and path.parse).
LastDot(p) ==
    LET dots == {i \in 1..Len(p) : p[i] = "."}
    IN  IF dots = {} THEN 0 ELSE CHOOSE i \in dots : \A j \in dots : j <= i

\* path.extname / path.parse find no extension: no dot, the only dot leads the
\* name (a dotfile), or the name is "..".
NoExtension(p) ==
    LET sd == LastDot(p)
    IN  \/ sd = 0
        \/ sd = 1
        \/ (p[1] = "." /\ sd = Len(p) /\ sd = 2)

\* path.extname(file) (line 44): from the last dot to the end.
extname(p) == IF NoExtension(p) THEN <<>> ELSE SubSeq(p, LastDot(p), Len(p))

ParseName_FirstDot(p) ==
    LET dots == {i \in 1..Len(p) : p[i] = "."}
    IN  IF dots = {} THEN p
        ELSE SubSeq(p, 1, (CHOOSE i \in dots : \A j \in dots : i <= j) - 1)

\* path.parse(inputFile).name (line 56): the name up to its last dot.
ParseName(p) == IF NoExtension(p) THEN p ELSE SubSeq(p, 1, LastDot(p) - 1)

\* path.normalize of a directory given as its segments: "." segments go.
Normalize(dir) == SelectSeq(dir, LAMBDA s : s # ".")

\* path.join(dir, file) (lines 55, 57) for a file name without "/".
Join(dir, file) == [dir |-> Normalize(dir), base |-> file]

IsSupported_Any(file) == TRUE

\* The filter predicate of getInputFiles, lines 43-46.
IsSupported(file) == toLowerCase(extname(file)) \in supportedFormats

OutputFileName_Append(inputFile) == inputFile \o Mp4

\* outputFileName of convertFile, line 56.
OutputFileName(inputFile) == ParseName(inputFile) \o Mp4

----------------------------------------------------------------------------
\* The environment's inputs.

\* Names an input directory may hold; isDir marks a subdirectory.
EntryPool ==
    { [name |-> <<"c", ".", "w", "e", "b", "m">>, isDir |-> FALSE],
      [name |-> <<"c", ".", "m", "k", "v">>, isDir |-> FALSE],
      [name |-> <<"a", ".", "b", ".", "M", "o", "V">>, isDir |-> FALSE],
      [name |-> <<"n", ".", "t", "x", "t">>, isDir |-> FALSE],
      [name |-> <<".", "w", "e", "b", "m">>, isDir |-> FALSE],
      [name |-> <<"d", ".", "a", "v", "i">>, isDir |-> TRUE] }

\* Directory listings: up to MaxEntries entries with distinct names, any order.
Listings ==
    UNION { { s \in [1..n -> EntryPool] :
                \A i, j \in 1..n : i # j => s[i].name # s[j].name }
            : n \in 0..MaxEntries }

ErrorMessages == {"invalid frame", "no space left"}

NoPromise == [kind |-> "none", output |-> <<>>, message |-> ""]
Pending == [kind |-> "pending", output |-> <<>>, message |-> ""]

----------------------------------------------------------------------------
VARIABLES
    pc,            \* where run() stands
    exists,        \* the directories that exist
    created,       \* the directories this run created
    entries,       \* the content of the input directory
    listed,        \* fs.readdir(inputDir) was called
    files,         \* convertAll's files
    idx,           \* position of the for-of loop in files
    success,       \* results.success
    failed,        \* results.failed
    invocations,   \* the engine invocations, in order
    promise,       \* the promise of the current convertFile
    outFiles,      \* output files the engine completed
    log            \* the console messages, by kind

vars == << pc, exists, created, entries, listed, files, idx, success, failed,
           invocations, promise, outFiles, log >>

Init ==
    /\ pc = "run"
    /\ exists \in SUBSET {inputDir, outputDir}
    /\ created = {}
    /\ entries \in (IF inputDir \in exists THEN Listings ELSE {<<>>})
    /\ listed = FALSE
    /\ files = <<>>
    /\ idx = 0
    /\ success = <<>>
    /\ failed = <<>>
    /\ invocations = <<>>
    /\ promise = NoPromise
    /\ outFiles = {}
    /\ log = <<>>

----------------------------------------------------------------------------
\* Decisions of the code, written as operators.

Msg(kind) == [kind |-> kind, success |-> 0, failed |-> 0]

AfterProbe_Continue(err) == "createDirectories"

\* run(), lines 139-142: stop when checkFFmpeg resolved false.
AfterProbe(err) == IF err THEN "done" ELSE "createDirectories"

AfterCreateDirectories_Rethrow(failAt) ==
    IF failAt = "none" THEN "convertAll" ELSE "rejected"

\* createDirectories, lines 30-36: the catch swallows the error, and run()
\* goes on to convertAll (lines 145-148).
AfterCreateDirectories(failAt) == "convertAll"

\* The directories that exist after createDirectories: ensureDir(inputDir),
\* then ensureDir(outputDir), the second only when the first succeeded.
ExistsAfterCreate(ex, failAt) ==
    CASE failAt = "none" -> ex \cup {inputDir, outputDir}
      [] failAt = "input" -> ex
      [] failAt = "output" -> ex \cup {inputDir}

\* getInputFiles, lines 40-51: the names readdir gave, filtered; [] when
\* readdir threw.  readdir gives the names of all entries, directories too.
getInputFiles(readOk, ents) ==
    IF readOk
    THEN SelectSeq([i \in 1..Len(ents) |-> ents[i].name], IsSupported)
    ELSE <<>>

LoopMayProceed_NoAwait == pc \in {"loop", "await"}

\* convertAll, line 113: the loop goes on only when no conversion is awaited.
LoopMayProceed == pc = "loop"

\* convertFile, lines 55-70: the invocation handed to the engine.
Invocation(inputFile) ==
    [ input |-> Join(inputDir, inputFile),
      output |-> Join(outputDir, OutputFileName(inputFile)),
      options |-> outputOptions,
      state |-> "spawned",
      progress |-> 0,
      message |-> "" ]

\* convertAll, lines 113-114: a resolved convertFile is pushed to success.
SuccessAfter(s, file, p) ==
    IF p.kind = "resolved"
    THEN Append(s, [input |-> file, output |-> p.output])
    ELSE s

FailedAfter_Drop(f, file, p) == f

\* convertAll, lines 115-117: a rejected convertFile is pushed to failed.
FailedAfter(f, file, p) ==
    IF p.kind = "rejected"
    THEN Append(f, [input |-> file, error |-> p.message])
    ELSE f

NextIdx_StopOnError(i, p, n) == IF p.kind = "rejected" THEN n + 1 ELSE i + 1

\* convertAll, line 111: the for-of loop takes the next file, whatever the
\* outcome of this one.
NextIdx(i, p, n) == i + 1

LoopDone_Never(i, n) == i > n + 1

\* convertAll, lines 111 and 118: the loop ends after the last file.
LoopDone(i, n) == i > n

InFlight(i) == invocations[i].state \in {"spawned", "running"}

----------------------------------------------------------------------------
\* The steps of run().

\* run(), line 139: checkFFmpeg asks the engine for its codecs.
CheckFFmpeg ==
    /\ pc = "run"
    /\ pc' = "probe"
    /\ log' = Append(log, Msg("banner"))
    /\ UNCHANGED << exists, created, entries, listed, files, idx, success,
                    failed, invocations, promise, outFiles >>

\* checkFFmpeg, lines 15-24: the callback of getAvailableCodecs.
GetAvailableCodecsCallback ==
    /\ pc = "probe"
    /\ \E err \in BOOLEAN :
        /\ pc' = AfterProbe(err)
        /\ log' = Append(log, Msg(IF err THEN "ffmpegMissing" ELSE "ffmpegOk"))
    /\ UNCHANGED << exists, created, entries, listed, files, idx, success,
                    failed, invocations, promise, outFiles >>

\* createDirectories, lines 29-37.
CreateDirectories ==
    /\ pc = "createDirectories"
    /\ \E failAt \in {"none", "input", "output"} :
        /\ exists' = ExistsAfterCreate(exists, failAt)
        /\ created' = created \cup (ExistsAfterCreate(exists, failAt) \ exists)
        /\ pc' = AfterCreateDirectories(failAt)
        /\ log' = Append(log, Msg(IF failAt = "none" THEN "dirsOk" ELSE "dirsFailed"))
    /\ UNCHANGED << entries, listed, files, idx, success, failed, invocations,
                    promise, outFiles >>

\* convertAll, lines 92-109: list, filter, return early when nothing matched.
ConvertAllBegin ==
    /\ pc = "convertAll"
    /\ \E readOk \in BOOLEAN :
        /\ readOk => inputDir \in exists
        /\ LET fs == getInputFiles(readOk, entries)
           IN  /\ files' = fs
               /\ IF Len(fs) = 0
                  THEN /\ pc' = "done"
                       /\ idx' = idx
                       /\ log' = log \o (IF readOk THEN <<>> ELSE <<Msg("readFailed")>>)
                                     \o <<Msg("noFiles")>>
                  ELSE /\ pc' = "loop"
                       /\ idx' = 1
                       /\ log' = Append(log, Msg("found"))
    /\ listed' = TRUE
    /\ UNCHANGED << exists, created, entries, success, failed, invocations,
                    promise, outFiles >>

\* convertFile, lines 54-88: build the paths and run the engine.
ConvertFile ==
    /\ LoopMayProceed
    /\ ~LoopDone(idx, Len(files))
    /\ idx \in 1..Len(files)
    /\ invocations' = Append(invocations, Invocation(files[idx]))
    /\ promise' = Pending
    /\ pc' = "await"
    /\ UNCHANGED << exists, created, entries, listed, files, idx, success,
                    failed, outFiles, log >>

\* The await of line 113 resumes: lines 114-117, and the loop's next step.
Resume ==
    /\ pc = "await"
    /\ promise.kind \in {"resolved", "rejected"}
    /\ success' = SuccessAfter(success, files[idx], promise)
    /\ failed' = FailedAfter(failed, files[idx], promise)
    /\ idx' = NextIdx(idx, promise, Len(files))
    /\ promise' = NoPromise
    /\ pc' = "loop"
    /\ UNCHANGED << exists, created, entries, listed, files, invocations,
                    outFiles, log >>

\* convertAll, lines 120-130: the summary, then run() returns.
Summary ==
    /\ pc = "loop"
    /\ LoopDone(idx, Len(files))
    /\ log' = Append(log, [kind |-> "summary", success |-> Len(success),
                           failed |-> Len(failed)])
    /\ pc' = "done"
    /\ UNCHANGED << exists, created, entries, listed, files, idx, success,
                    failed, invocations, promise, outFiles >>

----------------------------------------------------------------------------
\* The engine's events on one invocation (convertFile, lines 71-86).

Settle(p) == IF promise.kind = "pending" THEN p ELSE promise

\* 'start', lines 71-73.
OnStart ==
    /\ \E i \in 1..Len(invocations) :
        /\ invocations[i].state = "spawned"
        /\ invocations' = [invocations EXCEPT ![i].state = "running"]
    /\ UNCHANGED << pc, exists, created, entries, listed, files, idx, success,
                    failed, promise, outFiles, log >>

\* 'progress', lines 74-78.
OnProgress ==
    /\ \E i \in 1..Len(invocations) :
        /\ invocations[i].state = "running"
        /\ invocations[i].progress < MaxProgress
        /\ invocations' = [invocations EXCEPT ![i].progress = @ + 1]
    /\ UNCHANGED << pc, exists, created, entries, listed, files, idx, success,
                    failed, promise, outFiles, log >>

\* 'end', lines 79-82: the engine wrote the output, which it can only do in
\* a directory that exists; resolve(outputPath).
OnEnd ==
    /\ \E i \in 1..Len(invocations) :
        /\ invocations[i].state = "running"
        /\ outputDir \in exists
        /\ invocations' = [invocations EXCEPT ![i].state = "end"]
        /\ outFiles' = outFiles \cup {invocations[i].output.base}
        /\ promise' = Settle([kind |-> "resolved",
                              output |-> invocations[i].output, message |-> ""])
    /\ UNCHANGED << pc, exists, created, entries, listed, files, idx, success,
                    failed, log >>

\* 'error', lines 83-86: reject(err).
OnError ==
    /\ \E i \in 1..Len(invocations), msg \in ErrorMessages :
        /\ InFlight(i)
        /\ invocations' = [invocations EXCEPT ![i].state = "error",
                                              ![i].message = msg]
        /\ promise' = Settle([kind |-> "rejected", output |-> <<>>,
                              message |-> msg])
    /\ UNCHANGED << pc, exists, created, entries, listed, files, idx, success,
                    failed, outFiles, log >>

\* The engine process wedges: it will signal neither 'end' nor 'error'.
Hang ==
    /\ \E i \in 1..Len(invocations) :
        /\ InFlight(i)
        /\ invocations' = [invocations EXCEPT ![i].state = "hung"]
    /\ UNCHANGED << pc, exists, created, entries, listed, files, idx, success,
                    failed, promise, outFiles, log >>

Next ==
    \/ CheckFFmpeg
    \/ GetAvailableCodecsCallback
    \/ CreateDirectories
    \/ ConvertAllBegin
    \/ ConvertFile
    \/ Resume
    \/ Summary
    \/ OnStart
    \/ OnProgress
    \/ OnEnd
    \/ OnError
    \/ Hang

Spec == Init /\ [][Next]_vars

\* Every step that can be taken is taken: the event loop runs the callbacks
\* and continuations that are ready, and the engine signals what it can.
LiveSpec == Spec /\ WF_vars(Next)

----------------------------------------------------------------------------
\* Vocabulary of the properties.

Logged(kind) == \E i \in 1..Len(log) : log[i].kind = kind

SummaryPrinted == Len(log) > 0 /\ log[Len(log)].kind = "summary"

\* An invocation whose process has signalled no terminal event.
Active(i) == invocations[i].state \in {"spawned", "running", "hung"}

Hung == \E i \in 1..Len(invocations) : invocations[i].state = "hung"

\* The number of entries of a sequence of records whose input is f.
CountInput(seq, f) == Cardinality({j \in 1..Len(seq) : seq[j].input = f})

\* A name ends in a recognized extension, in any letter case, after a
\* non-empty base name: stated on the characters, not by way of extname.
Recognized(name) ==
    \E e \in supportedFormats :
        /\ Len(name) > Len(e)
        /\ toLowerCase(SubSeq(name, Len(name) - Len(e) + 1, Len(name))) = e

\* <output_dir>/name.mp4 for name.ext, stated on the characters.
ExpectedOutput(f) ==
    LET e == CHOOSE x \in supportedFormats :
                 /\ Len(f) > Len(x)
                 /\ toLowerCase(SubSeq(f, Len(f) - Len(x) + 1, Len(f))) = x
    IN  [dir |-> <<"output">>, base |-> SubSeq(f, 1, Len(f) - Len(e)) \o Mp4]

----------------------------------------------------------------------------
\* C1: when convertAll reaches its summary, every matched file has exactly
\* one entry in results.success or results.failed (never both, never none,
\* never twice), and the two counts printed add up to the number of matched
\* files.
C1_ExactlyOneResult ==
    SummaryPrinted =>
        /\ \A i \in 1..Len(files) :
               CountInput(success, files[i]) + CountInput(failed, files[i]) = 1
        /\ Len(success) + Len(failed) = Len(files)
        /\ log[Len(log)].success + log[Len(log)].failed = Len(files)

\* A summary after one success and one failure.
C1_Witness == SummaryPrinted /\ Len(success) = 1 /\ Len(failed) = 1

\* C2: once the probe has failed, run() has stopped: no directory was
\* created, the input directory was not listed, the engine was not invoked
\* and no output was written.
C2_ProbeFailureStops ==
    Logged("ffmpegMissing") =>
        /\ pc = "done"
        /\ created = {}
        /\ ~listed
        /\ invocations = <<>>
        /\ outFiles = {}

\* The probe failed where a directory was missing.
C2_Witness == Logged("ffmpegMissing") /\ pc = "done" /\ exists # {inputDir, outputDir}

\* C3: at most one engine invocation is in flight at any time; a later
\* invocation exists only when every earlier one has signalled 'end' or
\* 'error' and its file's result has been appended.
C3_OneAtATime ==
    /\ Cardinality({i \in 1..Len(invocations) : Active(i)}) <= 1
    /\ \A i \in 1..Len(invocations) :
           i < Len(invocations) =>
               /\ invocations[i].state \in {"end", "error"}
               /\ CountInput(success, invocations[i].input.base)
                    + CountInput(failed, invocations[i].input.base) = 1
    /\ Len(invocations) <= Len(success) + Len(failed) + 1

\* The second invocation runs, with progress, after the first has ended.
C3_Witness ==
    /\ Len(invocations) = 2
    /\ invocations[2].state = "running"
    /\ invocations[2].progress > 0

\* C4: a failed conversion is recorded in results.failed with the file's name
\* and the engine's message; no file is handed to the engine twice; and when
\* the summary is reached every matched file, those after a failure included,
\* was handed to the engine exactly once.
C4_FailureIsolated ==
    /\ \A i \in 1..Len(invocations) :
           (invocations[i].state = "error" /\ (i < idx \/ pc = "done")) =>
               /\ CountInput(failed, invocations[i].input.base) = 1
               /\ \E j \in 1..Len(failed) :
                      /\ failed[j].input = invocations[i].input.base
                      /\ failed[j].error = invocations[i].message
    /\ \A j \in 1..Len(failed) :
           \E i \in 1..Len(invocations) :
               /\ invocations[i].state = "error"
               /\ invocations[i].input = Join(inputDir, failed[j].input)
               /\ invocations[i].message = failed[j].error
    /\ \A i \in 1..Len(files) :
           Cardinality({k \in 1..Len(invocations) :
                          invocations[k].input = Join(inputDir, files[i])}) <= 1
    /\ SummaryPrinted =>
           \A i \in 1..Len(files) :
               Cardinality({k \in 1..Len(invocations) :
                              invocations[k].input = Join(inputDir, files[i])}) = 1

\* The first file failed, the second was converted, the summary is printed.
C4_Witness ==
    /\ SummaryPrinted
    /\ Len(invocations) = 2
    /\ invocations[1].state = "error"
    /\ invocations[2].state = "end"

C6_FilesOnly ==
    (listed /\ ~Logged("readFailed")) =>
        files = SelectSeq([i \in 1..Len(entries) |-> entries[i].name],
                          LAMBDA n : Recognized(n)
                                     /\ \A i \in 1..Len(entries) :
                                            entries[i].name = n => ~entries[i].isDir)

\* C7: the output path handed to the engine, and returned on success, is
\* <output_dir>/name.mp4 for the input name.ext: only the last extension is
\* replaced, whatever recognized extension (in whatever case) it was.
C7_OutputPath ==
    /\ \A i \in 1..Len(invocations) :
           /\ Recognized(invocations[i].input.base)
           /\ invocations[i].output = ExpectedOutput(invocations[i].input.base)
    /\ \A j \in 1..Len(success) :
           /\ Recognized(success[j].input)
           /\ success[j].output = ExpectedOutput(success[j].input)

\* A name with two dots and an upper-case extension was converted.
C7_Witness ==
    \E j \in 1..Len(success) :
        /\ success[j].input = <<"a", ".", "b", ".", "M", "o", "V">>
        /\ success[j].output.base = <<"a", ".", "b", ".", "m", "p", "4">>

\* Every matched file was converted successfully and the summary is printed.
AllSucceeded == SummaryPrinted /\ Len(success) = Len(files)

\* C8, as claimed: after a run in which all K matched files convert, the
\* output directory holds K distinct output files.
C8_OneOutputPerInput == AllSucceeded => Cardinality(outFiles) = Len(files)

\* C8, amended: after a run in which all matched files convert, the output
\* directory holds exactly one file <base name>.mp4 for each distinct base
\* name among the matched files: as many files as inputs when the base names
\* differ pairwise, fewer when two inputs differ only in their extension.
C8_OneOutputPerBaseName ==
    AllSucceeded =>
        LET stems == {ParseName(files[i]) : i \in 1..Len(files)}
        IN  /\ outFiles = {st \o Mp4 : st \in stems}
            /\ Cardinality(outFiles) = Cardinality(stems)
            /\ Cardinality(stems) = Len(files) =>
                   Cardinality(outFiles) = Len(files)
            /\ \A i \in 1..Len(files) : ExpectedOutput(files[i]).base \in outFiles

\* Two inputs that differ only in extension were both converted into one file.
C8_Witness ==
    /\ AllSucceeded
    /\ Len(files) = 2
    /\ ParseName(files[1]) = ParseName(files[2])
    /\ Cardinality(outFiles) = 1

\* C9: a failure of createDirectories does not stop run(), which goes on to
\* convertAll; a failure to read the input directory gives an empty list, the
\* "no files" path and no engine invocation; no error leaves run().
C9_OnlyProbeHalts ==
    /\ pc # "rejected"
    /\ Logged("dirsFailed") =>
           /\ pc \in {"convertAll", "loop", "await", "done"}
           /\ pc = "done" => listed
    /\ Logged("readFailed") =>
           /\ pc = "done"
           /\ files = <<>>
           /\ invocations = <<>>
           /\ Logged("noFiles")
           /\ ~Logged("summary")

\* createDirectories failed, then reading the input directory failed, and
\* run() returned.
C9_Witness == Logged("dirsFailed") /\ Logged("readFailed") /\ pc = "done"

\* createDirectories failed and a file was converted all the same.
C9_WitnessConverted == Logged("dirsFailed") /\ Len(success) > 0

\* C10, as claimed: whenever run() has returned, the summary has been printed.
C10_SummaryAlways == pc = "done" => SummaryPrinted

\* C10, amended: if the probe answers and no invocation hangs, run()
\* returns; it has then printed the summary exactly when the probe succeeded
\* and a file was matched.  An invocation that hangs stops the batch for
\* good: its file gets no result, no later file is started and no summary is
\* printed.
C10_Termination ==
    /\ <>(pc = "done" \/ Hung)
    /\ [](pc = "done" => (SummaryPrinted <=> (Logged("ffmpegOk") /\ files # <<>>)))
    /\ [](Hung => /\ pc = "await"
                  /\ invocations[Len(invocations)].state = "hung"
                  /\ Len(invocations) = idx
                  /\ Len(success) + Len(failed) = idx - 1
                  /\ ~SummaryPrinted)
    /\ [][Hung => UNCHANGED vars]_vars

\* run() returned with a summary that counts a failure.
C10_Witness == pc = "done" /\ SummaryPrinted /\ Len(failed) > 0

\* The second invocation hangs.
C10_WitnessHung == Hung /\ Len(invocations) = 2

====
